---- MODULE Spec2Model ----
(***************************************************************************)
(* A model of the surface-area estimator (Julien5/surface-area).           *)
(*                                                                         *)
(* Numbers.  The program computes in f64.  The model computes in exact     *)
(* arithmetic: geographic and projected coordinates are integers (a fixed  *)
(* unit of angle / length), quotients are exact rationals <<n, d>>, and    *)
(* floor / ceil / round are taken of the exact quotient.  The IEEE special *)
(* values that the program can produce (NaN, +inf, -inf) are modelled      *)
(* explicitly where a division by zero can occur.  f64 rounding error is   *)
(* not modelled.                                                           *)
(***************************************************************************)
EXTENDS Integers, Sequences, FiniteSets, TLC

VARIABLES
    \* --- raster round trip (Raster::wgs84 / Raster::icoordinates)
    raster,      \* the Raster / Dataset under study
    rt,          \* last round trip: [done, col, row, g, back]
    \* --- one dataset in the orchestrator loop (main.rs 13-24)
    pbbox,       \* input_polygon.wgsbbox()
    bbox,        \* Option<WGS84BoundingBox>: the loop's `bbox`
    gpc,         \* position in the loop body
    ret,         \* result of Dataset::points_inside
    \* --- Dataset::select and the orchestrator's loop over its result (main.rs 11-25)
    candidates,  \* the datasets opened from polygon.candidates(), in order
    pruned,      \* the list after remove_redundant_datasets
    datasets,    \* the list select returns
    spc,         \* position in process
    di,          \* number of datasets the loop has consumed
    skipped,     \* filenames of the datasets for which the `if let Some` failed
    gridpoints,  \* the BTreeSet of posts, as its sorted sequence
    \* --- a pure function applied to an input
    fn,          \* the function applied, "idle" before
    arg,         \* its input
    res,         \* its result
    \* --- process, from the triangulation to the report row (main.rs 30-93)
    input_polygon, \* input_polygon.wgs
    gridtriangles, \* the triangles of the posts
    ti,            \* number of triangles the loop has consumed
    planes,        \* the facets kept
    projected2d,   \* sum of a2d over the facets kept
    projected3d,   \* sum of a3d over the facets kept
    outcome        \* the typst::Data returned, None before

gridVars == <<raster, rt, pbbox, bbox, gpc, ret>>
selVars == <<candidates, pruned, datasets, spc, di, skipped, gridpoints>>
fnVars == <<fn, arg, res>>
procVars == <<input_polygon, gridtriangles, ti, planes, projected2d, projected3d, outcome>>
vars == <<gridVars, selVars, fnVars, procVars>>
\* what the actions of one part leave alone
notGrid == <<selVars, fnVars, procVars>>
notSel == <<gridVars, fnVars, procVars>>
notFn == <<gridVars, selVars, procVars>>

(***************************************************************************)
(* Bounds of the model                                                     *)
(***************************************************************************)
MaxSize == 2        \* raster xsize, ysize in 1..MaxSize
MaxStep == 3        \* |xstep|, |ystep| in 2..MaxStep
MaxIndex == 3       \* round trip: col, row in -MaxIndex..MaxIndex
MaxReach == 3       \* polygon bbox: lon in -2..MaxReach, lat in -MaxReach..2
MaxDatasets == 3    \* at most MaxDatasets candidate datasets

(***************************************************************************)
(* Option<T>                                                               *)
(***************************************************************************)
None == [some |-> FALSE]
Some(v) == [some |-> TRUE, v |-> v]

\* The element of a one-element set.  Only({e(x) : x \in {v}}) is `let x = v; e(x)`
\* with v computed once.
Only(S) == CHOOSE r \in S : TRUE

(***************************************************************************)
(* Exact arithmetic                                                        *)
(***************************************************************************)
Abs(a) == IF a < 0 THEN -a ELSE a
Min(a, b) == IF a <= b THEN a ELSE b
Max(a, b) == IF a >= b THEN a ELSE b

\* a quotient n/d, d # 0, kept with a positive denominator
Q(n, d) == IF d < 0 THEN <<-n, -d>> ELSE <<n, d>>
QLe(p, q) == p[1] * q[2] <= q[1] * p[2]
QMin(p, q) == IF QLe(p, q) THEN p ELSE q
QMax(p, q) == IF QLe(p, q) THEN q ELSE p
\* f64::floor, f64::ceil, f64::round (half away from zero), then `as isize`
Floor(q) == q[1] \div q[2]
Ceil(q) == -((-q[1]) \div q[2])
Round(q) == IF q[1] >= 0 THEN (2 * q[1] + q[2]) \div (2 * q[2])
            ELSE -((2 * (-q[1]) + q[2]) \div (2 * q[2]))

(***************************************************************************)
(* f64 values that are not coordinates of a raster: a finite value is the  *)
(* fraction <<n, d>> in lowest terms with d > 0, NaN is <<0, 0>>, and the  *)
(* infinities are <<1, 0>> and <<-1, 0>>.  The operations follow IEEE 754  *)
(* on these cases with exact finite results; the sign of a zero is not     *)
(* kept, so x / 0 takes the sign of x.                                     *)
(***************************************************************************)
NaN == <<0, 0>>
PosInf == <<1, 0>>
NegInf == <<-1, 0>>
Sgn(n) == IF n > 0 THEN 1 ELSE IF n < 0 THEN -1 ELSE 0

RECURSIVE Gcd(_, _)
Gcd(a, b) == IF b = 0 THEN a ELSE Only({Gcd(b, r) : r \in {a % b}})

Norm(n, d) ==
    IF d = 0 THEN <<Sgn(n), 0>>
    ELSE Only({<<(Sgn(d) * n) \div g, Abs(d) \div g>> : g \in {Gcd(Abs(n), Abs(d))}})

F(n) == <<n, 1>>
IsFinite(a) == a[2] # 0

FNeg(a) == Only({<<-x[1], x[2]>> : x \in {a}})

FAdd(a, b) ==
    Only({IF x = NaN \/ y = NaN THEN NaN
          ELSE IF x[2] = 0 /\ y[2] = 0 THEN (IF x = y THEN x ELSE NaN)
          ELSE IF x[2] = 0 THEN x
          ELSE IF y[2] = 0 THEN y
          ELSE Norm(x[1] * y[2] + y[1] * x[2], x[2] * y[2]) : x \in {a}, y \in {b}})

FSub(a, b) == FAdd(a, FNeg(b))

FMul(a, b) ==
    Only({IF x = NaN \/ y = NaN THEN NaN
          ELSE IF x[2] = 0 \/ y[2] = 0
               THEN (IF x[1] = 0 \/ y[1] = 0 THEN NaN ELSE <<Sgn(x[1]) * Sgn(y[1]), 0>>)
          ELSE Norm(x[1] * y[1], x[2] * y[2]) : x \in {a}, y \in {b}})

FDiv(a, b) ==
    Only({IF x = NaN \/ y = NaN THEN NaN
          ELSE IF x[2] = 0 /\ y[2] = 0 THEN NaN
          ELSE IF x[2] = 0 THEN <<x[1] * (IF y[1] < 0 THEN -1 ELSE 1), 0>>
          ELSE IF y[2] = 0 THEN F(0)
          ELSE IF y[1] = 0 THEN (IF x[1] = 0 THEN NaN ELSE <<Sgn(x[1]), 0>>)
          ELSE Norm(x[1] * y[2], x[2] * y[1]) : x \in {a}, y \in {b}})

\* a < b; false when either is NaN
FLt(a, b) ==
    Only({IF x = NaN \/ y = NaN THEN FALSE
          ELSE IF x[2] = 0 \/ y[2] = 0
               THEN x # y /\ (x = NegInf \/ y = PosInf)
          ELSE x[1] * y[2] < y[1] * x[2] : x \in {a}, y \in {b}})

FLe(a, b) == Only({x # NaN /\ y # NaN /\ (x = y \/ FLt(x, y)) : x \in {a}, y \in {b}})

FAbs(a) == Only({<<Abs(x[1]), x[2]>> : x \in {a}})

\* the integer part of the square root
SqrtMax == 46339
\* Heron's iteration on integers, from a start x that is not below the root
RECURSIVE HeronSqrt(_, _)
HeronSqrt(n, x) == Only({IF y >= x THEN x ELSE HeronSqrt(n, y) : y \in {(x + n \div x) \div 2}})
ISqrt(n) == IF n = 0 THEN 0 ELSE HeronSqrt(n, Min(n, SqrtMax + 1))

\* sqrt, exact on the squares of fractions and rounded down to a multiple of
\* 1/d on the other fractions n/d
FSqrt(a) ==
    Only({IF x = NaN \/ x[1] < 0 THEN NaN
          ELSE IF x[2] = 0 THEN x
          ELSE Norm(ISqrt(x[1] * x[2]), x[2]) : x \in {a}})

(***************************************************************************)
(* point.rs: WGS84Point, WGS84BoundingBox                                  *)
(***************************************************************************)
WGS84Point(lon, lat) == [lon |-> lon, lat |-> lat, ele |-> None]

from(p1, p2) ==
    [min |-> WGS84Point(Min(p1.lon, p2.lon), Min(p1.lat, p2.lat)),
     max |-> WGS84Point(Max(p1.lon, p2.lon), Max(p1.lat, p2.lat))]

intersection_strict(self, other) ==
    LET min_lon == Max(self.min.lon, other.min.lon)
        min_lat == Max(self.min.lat, other.min.lat)
        max_lon == Min(self.max.lon, other.max.lon)
        max_lat == Min(self.max.lat, other.max.lat)
    IN  IF min_lon < max_lon /\ min_lat < max_lat
        THEN Some([min |-> WGS84Point(min_lon, min_lat),
                   max |-> WGS84Point(max_lon, max_lat)])
        ELSE None

intersection(self, other) ==
    LET min_lon == Max(self.min.lon, other.min.lon)
        min_lat == Max(self.min.lat, other.min.lat)
        max_lon == Min(self.max.lon, other.max.lon)
        max_lat == Min(self.max.lat, other.max.lat)
    IN  IF min_lon <= max_lon /\ min_lat <= max_lat
        THEN Some([min |-> WGS84Point(min_lon, min_lat),
                   max |-> WGS84Point(max_lon, max_lat)])
        ELSE None

contains_point(self, w) ==
    /\ w.lon >= self.min.lon
    /\ w.lon <= self.max.lon
    /\ w.lat >= self.min.lat
    /\ w.lat <= self.max.lat

contains_other(self, other) ==
    /\ self.min.lon <= other.min.lon
    /\ self.min.lat <= other.min.lat
    /\ self.max.lon >= other.max.lon
    /\ self.max.lat >= other.min.lat

(***************************************************************************)
(* mercator.rs: the projection is the proj4 library's; the model keeps it  *)
(* as an increasing affine map of each axis that carries ele through.      *)
(***************************************************************************)
MetersPerUnit == 10

project(wgs) ==
    [x |-> MetersPerUnit * wgs.lon, y |-> MetersPerUnit * wgs.lat, ele |-> wgs.ele]

(***************************************************************************)
(* dataset.rs: Raster                                                      *)
(***************************************************************************)
coordinates_of_cell_centers(self, world) ==
    <<Q(2 * (world.lon - self.ul_lon) - self.xstep, 2 * self.xstep),
      Q(2 * (world.lat - self.ul_lat) - self.ystep, 2 * self.ystep)>>

coordinates(self, world) ==
    <<Q(world.lon - self.ul_lon, self.xstep), Q(world.lat - self.ul_lat, self.ystep)>>

icoordinates_xstep_twice(self, world) ==
    <<Round(Q(world.lon - self.ul_lon, self.xstep)),
      Round(Q(world.lat - self.ul_lat, self.xstep))>>

icoordinates(self, world) ==
    <<Round(Q(world.lon - self.ul_lon, self.xstep)),
      Round(Q(world.lat - self.ul_lat, self.ystep))>>

wgs84(self, col, row) ==
    WGS84Point(self.ul_lon + col * self.xstep, self.ul_lat + row * self.ystep)

(***************************************************************************)
(* dataset.rs: Dataset.  A dataset is its raster (geo transform and size)  *)
(* and band 1, `band[<<col, row>>]`.                                       *)
(***************************************************************************)
wgsbbox(self) ==
    LET p1 == WGS84Point(self.ul_lon, self.ul_lat)
        p2 == WGS84Point(p1.lon + self.xsize * self.xstep,
                         p1.lat + self.ysize * self.ystep)
    IN  [min |-> WGS84Point(Min(p1.lon, p2.lon), Min(p1.lat, p2.lat)),
         max |-> WGS84Point(Max(p1.lon, p2.lon), Max(p1.lat, p2.lat))]

raster_box_rounded(self, b) ==
    LET p1 == coordinates(self, b.min)
        p2 == coordinates(self, b.max)
        minpix == <<QMin(p1[1], p2[1]), QMin(p1[2], p2[2])>>
        maxpix == <<QMax(p1[1], p2[1]), QMax(p1[2], p2[2])>>
    IN  [min |-> <<Round(minpix[1]), Round(minpix[2])>>,
         max |-> <<Round(maxpix[1]), Round(maxpix[2])>>]

raster_box(self, b) ==
    LET p1 == coordinates(self, b.min)
        p2 == coordinates(self, b.max)
        minpix == <<QMin(p1[1], p2[1]), QMin(p1[2], p2[2])>>
        maxpix == <<QMax(p1[1], p2[1]), QMax(p1[2], p2[2])>>
    IN  [min |-> <<Floor(minpix[1]), Floor(minpix[2])>>,
         max |-> <<Ceil(maxpix[1]), Ceil(maxpix[2])>>]

snap(self, b) ==
    LET rb == raster_box(self, b)
        p1 == wgs84(self, rb.min[1], rb.min[2])
        p2 == wgs84(self, rb.max[1], rb.max[2])
    IN  from(p1, p2)


\* points_inside, first half: the window [col_start..col_end] x [row_start..row_end]
\* of the raster that the snapped box selects, or the assertion that stops it.
window_of_whole_dataset(self, snapped_box) ==
    LET dataset_bbox == wgsbbox(self)
        p1 == icoordinates(self, dataset_bbox.min)
        p2 == icoordinates(self, dataset_bbox.max)
    IN  [panic |-> "none",
         col_start |-> Min(p1[1], p2[1]), row_start |-> Min(p1[2], p2[2]),
         col_end |-> Min(Max(p1[1], p2[1]), self.xsize - 1),
         row_end |-> Min(Max(p1[2], p2[2]), self.ysize - 1)]

window_of_input_box(self, snapped_box) ==
    LET p1 == icoordinates(self, snapped_box.min)
        p2 == icoordinates(self, snapped_box.max)
        col_start == Min(p1[1], p2[1])
        row_start == Min(p1[2], p2[2])
    IN  IF ~intersection(wgsbbox(self), snapped_box).some
        THEN [panic |-> "assert_false", col_start |-> 0, row_start |-> 0,
              col_end |-> -1, row_end |-> -1]
        ELSE [panic |-> IF col_start < 0 THEN "assert_col_start"
                        ELSE IF row_start < 0 THEN "assert_row_start"
                        ELSE "none",
              col_start |-> col_start, row_start |-> row_start,
              col_end |-> Min(Max(p1[1], p2[1]), self.xsize - 1),
              row_end |-> Min(Max(p1[2], p2[2]), self.ysize - 1)]

window(self, snapped_box) ==
    LET dataset_bbox == wgsbbox(self)
        inter_opt == intersection(dataset_bbox, snapped_box)
    IN  IF ~inter_opt.some
        THEN [panic |-> "assert_false", col_start |-> 0, row_start |-> 0,
              col_end |-> -1, row_end |-> -1]
        ELSE
        LET inter == inter_opt.v
            p1 == icoordinates(self, inter.min)
            p2 == icoordinates(self, inter.max)
            minpix == <<Min(p1[1], p2[1]), Min(p1[2], p2[2])>>
            maxpix == <<Max(p1[1], p2[1]), Max(p1[2], p2[2])>>
            col_start == minpix[1]
            row_start == minpix[2]
            col_end == Min(maxpix[1], self.xsize - 1)
            row_end == Min(maxpix[2], self.ysize - 1)
        IN  [panic |-> IF col_start < 0 THEN "assert_col_start"
                       ELSE IF row_start < 0 THEN "assert_row_start"
                       ELSE "none",
             col_start |-> col_start, row_start |-> row_start,
             col_end |-> col_end, row_end |-> row_end]

\* points_inside, second half: the read of band 1 over the window and the loop
\* over its cells, row by row.  `cells` are the cells the loop body was entered
\* for; `posts` is the returned vector (empty when the call panics).
\*   window size 0 on an axis: GDAL skips the read and the loop visits nothing;
\*   a negative size wraps in `as usize` and the read fails.
points_inside(self, snapped_box) ==
    Only({
    Only({
    Only({
    Only({
        LET window_xsize == w.col_end - w.col_start + 1
            window_ysize == w.row_end - w.row_start + 1
            post(k) ==
                LET buffer_col == cell[k][1] - w.col_start
                    buffer_row == cell[k][2] - w.row_start
                    buffer_index == buffer_row * window_xsize + buffer_col
                IN  project([wgs84(self, cell[k][1], cell[k][2])
                                EXCEPT !.ele = Some(F(buffer[buffer_index + 1]))])
            first_bad == CHOOSE k \in bad : \A j \in bad : k <= j
        IN  IF w.panic # "none"
            THEN [panic |-> w.panic, window |-> w, cells |-> <<>>, posts |-> <<>>]
            ELSE IF window_xsize < 0 \/ window_ysize < 0
            THEN [panic |-> "read", window |-> w, cells |-> <<>>, posts |-> <<>>]
            ELSE IF bad # {}
            THEN [panic |-> "assert_contains", window |-> w,
                  cells |-> SubSeq(cell, 1, first_bad), posts |-> <<>>]
            ELSE [panic |-> "none", window |-> w, cells |-> cell,
                  posts |-> [k \in 1..Len(cell) |-> post(k)]]
      \* the cells whose center fails the loop's assertion
      : bad \in {{k \in 1..Len(cell) :
                    ~contains_point(snapped_box, wgs84(self, cell[k][1], cell[k][2]))}} })
      \* the buffer read from band 1 over the window, row by row
      : buffer \in {[k \in 1..Len(cell) |-> self.band[cell[k]]]} })
      \* the cells of the window in the order the loops visit them
      : cell \in {LET window_xsize == w.col_end - w.col_start + 1
                      window_ysize == w.row_end - w.row_start + 1
                      n == IF w.panic = "none" /\ window_xsize >= 1 /\ window_ysize >= 1
                           THEN window_xsize * window_ysize ELSE 0
                  IN  [k \in 1..n |-> <<w.col_start + ((k - 1) % window_xsize),
                                        w.row_start + ((k - 1) \div window_xsize)>>]} })
      : w \in {window(self, snapped_box)} })

(***************************************************************************)
(* The rasters and boxes the model explores                                *)
(***************************************************************************)
Steps == 2..MaxStep

\* band 1 of a synthetic DEM: a different elevation in every cell
SyntheticBand(xsize, ysize, base) ==
    [c \in (0..(xsize - 1)) \X (0..(ysize - 1)) |-> base + c[1] + 10 * c[2]]

\* upper_left of the rasters explored
Origins == {<<-1, 1>>, <<0, 0>>}

Rasters ==
    {[ul_lon |-> ulx, ul_lat |-> uly, xsize |-> xs, ysize |-> ys,
      xstep |-> dx, ystep |-> -dy, band |-> SyntheticBand(xs, ys, 100)] :
        <<ulx, uly>> \in Origins,
        xs \in 1..MaxSize, ys \in 1..MaxSize, dx \in Steps, dy \in Steps}

Boxes(lons, lats) ==
    {[min |-> WGS84Point(x1, y1), max |-> WGS84Point(x2, y2)] :
        <<x1, x2>> \in {p \in lons \X lons : p[1] <= p[2]},
        <<y1, y2>> \in {p \in lats \X lats : p[1] <= p[2]}}

NoRoundTrip == [done |-> FALSE]
NoResult == [panic |-> "not_called"]

\* the variables of a part of the program that a specification leaves out
SelectIdle ==
    /\ candidates = <<>> /\ pruned = <<>> /\ datasets = <<>>
    /\ spc = "idle" /\ di = 0 /\ skipped = {} /\ gridpoints = <<>>

FnIdle == fn = "idle" /\ arg = <<>> /\ res = <<>>

GridIdle ==
    /\ raster = None /\ rt = NoRoundTrip /\ bbox = None /\ gpc = "idle" /\ ret = NoResult

ProcIdle ==
    /\ input_polygon = <<>> /\ gridtriangles = <<>> /\ ti = 0 /\ planes = <<>>
    /\ projected2d = F(0) /\ projected3d = F(0) /\ outcome = None

(***************************************************************************)
(* SpecRaster: the raster round trip, and snap on any box                  *)
(***************************************************************************)
InitRaster ==
    /\ raster \in Rasters
    /\ rt = NoRoundTrip
    /\ pbbox = None /\ bbox = None /\ gpc = "idle" /\ ret = NoResult
    /\ SelectIdle /\ FnIdle /\ ProcIdle

RoundTrip ==
    /\ gpc = "idle"
    /\ \E col \in -MaxIndex..MaxIndex, row \in -MaxIndex..MaxIndex :
          LET g == wgs84(raster, col, row)
          IN  rt' = [done |-> TRUE, col |-> col, row |-> row, g |-> g,
                     back |-> icoordinates(raster, g)]
    /\ gpc' = "round_trip"
    /\ UNCHANGED <<raster, pbbox, bbox, ret, notGrid>>

\* dataset.snap(&mut b) on any box b with min <= max; pbbox keeps b as it was
SnapBox ==
    /\ gpc = "idle"
    /\ \E b \in Boxes(-2..MaxReach, -MaxReach..2) :
          /\ pbbox' = b
          /\ bbox' = Some(snap(raster, b))
    /\ gpc' = "snapped"
    /\ UNCHANGED <<raster, rt, ret, notGrid>>

\* dataset.points_inside(&b) on any box b with min <= max, snapped or not
PointsInsideAny ==
    /\ gpc = "idle"
    /\ \E b \in Boxes(-2..MaxReach, -MaxReach..2) :
          /\ bbox' = Some(b)
          /\ ret' = points_inside(raster, b)
    /\ gpc' = "points_inside"
    /\ UNCHANGED <<raster, rt, pbbox, notGrid>>

\* dataset.snap(&mut b) once more on the box that snap left; pbbox keeps b as it was
SnapAgain ==
    /\ gpc = "snapped"
    /\ pbbox' = bbox.v
    /\ bbox' = Some(snap(raster, bbox.v))
    /\ gpc' = "snapped_again"
    /\ UNCHANGED <<raster, rt, ret, notGrid>>

NextRaster == RoundTrip \/ SnapBox \/ PointsInsideAny \/ SnapAgain
SpecRaster == InitRaster /\ [][NextRaster]_vars

\* C1: for every raster with xstep > 0 and ystep < 0 and every integer (col, row),
\* icoordinates(wgs84(col, row)) is exactly (col, row).
C1_RoundTrip == rt.done => rt.back = <<rt.col, rt.row>>

C1_Witness ==
    /\ rt.done /\ rt.col < 0 /\ rt.row > 0
    /\ raster.xstep # -raster.ystep /\ raster.ul_lon # 0 /\ raster.ul_lat # 0
    /\ rt.back = <<rt.col, rt.row>>

IsCellCenter(p) ==
    \E c \in -(MaxReach + 4)..(MaxReach + 4), r \in -(MaxReach + 4)..(MaxReach + 4) :
        p.lon = raster.ul_lon + c * raster.xstep /\ p.lat = raster.ul_lat + r * raster.ystep

\* C2: snap(B) yields a box B' that contains B on both axes and whose two corners
\* are raster cell centers, for every B with min <= max (ystep negative).
C2_Snap ==
    gpc = "snapped" =>
        /\ bbox.v.min.lon <= pbbox.min.lon /\ bbox.v.min.lat <= pbbox.min.lat
        /\ bbox.v.max.lon >= pbbox.max.lon /\ bbox.v.max.lat >= pbbox.max.lat
        /\ IsCellCenter(bbox.v.min) /\ IsCellCenter(bbox.v.max)

\* a box that reaches outside the dataset, with no corner on the grid
C2_Witness ==
    /\ gpc = "snapped"
    /\ bbox.v.min.lon < pbbox.min.lon /\ bbox.v.min.lat < pbbox.min.lat
    /\ bbox.v.max.lon > pbbox.max.lon /\ bbox.v.max.lat > pbbox.max.lat
    /\ pbbox.min.lon < raster.ul_lon /\ pbbox.min.lat < pbbox.max.lat

\* C15: in points_inside, a box that intersects the dataset's wgsbbox gives
\* col_start >= 0 and row_start >= 0, so neither assertion on them fails; a box disjoint
\* from wgsbbox stops at assert!(false) and returns no post.
C15_WindowStartsInside ==
    gpc = "points_inside" =>
        IF intersection(wgsbbox(raster), bbox.v).some
        THEN /\ ret.window.col_start >= 0 /\ ret.window.row_start >= 0
             /\ ret.panic \notin {"assert_false", "assert_col_start", "assert_row_start"}
        ELSE ret.panic = "assert_false" /\ ret.posts = <<>>

\* a box that hangs over the west and north edges of the dataset and gives posts
C15_Witness ==
    /\ gpc = "points_inside"
    /\ bbox.v.min.lon < wgsbbox(raster).min.lon
    /\ bbox.v.max.lat > wgsbbox(raster).max.lat
    /\ ret.panic = "none" /\ Len(ret.posts) >= 2

(***************************************************************************)
(* SpecGrid: one dataset in the orchestrator's loop (main.rs 15-20):       *)
(*   dbbox = dataset.wgsbbox(); if let Some(bbox) = pbbox.intersection(dbbox)*)
(*   { dataset.snap(&mut bbox); dataset.points_inside(&bbox) }             *)
(***************************************************************************)
InitGrid ==
    /\ raster \in Rasters
    /\ rt = NoRoundTrip
    /\ pbbox \in Boxes(-2..MaxReach, -MaxReach..2)
    /\ bbox = None
    /\ gpc = "intersect"
    /\ ret = NoResult
    /\ SelectIdle /\ FnIdle /\ ProcIdle

GridIntersect ==
    /\ gpc = "intersect"
    /\ bbox' = intersection(pbbox, wgsbbox(raster))
    /\ gpc' = IF bbox'.some THEN "snap" ELSE "skipped"
    /\ UNCHANGED <<raster, rt, pbbox, ret, notGrid>>

GridSnap ==
    /\ gpc = "snap"
    /\ bbox' = Some(snap(raster, bbox.v))
    /\ gpc' = "points_inside"
    /\ UNCHANGED <<raster, rt, pbbox, ret, notGrid>>

GridPointsInside ==
    /\ gpc = "points_inside"
    /\ ret' = points_inside(raster, bbox.v)
    /\ gpc' = IF ret'.panic = "none" THEN "done" ELSE "panicked"
    /\ UNCHANGED <<raster, rt, pbbox, bbox, notGrid>>

NextGrid == GridIntersect \/ GridSnap \/ GridPointsInside
SpecGrid == InitGrid /\ [][NextGrid]_vars

ProjectedInside(b, m) ==
    /\ project(b.min).x <= m.x /\ m.x <= project(b.max).x
    /\ project(b.min).y <= m.y /\ m.y <= project(b.max).y

\* C3: in points_inside on a snapped box, every visited cell's center is inside the
\* snapped box: the loop's assertion never fails and every returned post is inside.
C3_PointsInside ==
    gpc \in {"done", "panicked"} =>
        /\ ret.panic # "assert_contains"
        /\ \A k \in 1..Len(ret.cells) :
              contains_point(bbox.v, wgs84(raster, ret.cells[k][1], ret.cells[k][2]))
        /\ \A k \in 1..Len(ret.posts) : ProjectedInside(bbox.v, ret.posts[k])

C3_Witness ==
    /\ gpc = "done" /\ Len(ret.posts) >= 2
    /\ ret.window.col_start > 0
    /\ bbox.v.max.lon = wgsbbox(raster).max.lon    \* col_end was clamped
    /\ bbox.v # wgsbbox(raster)

(***************************************************************************)
(* dataset.rs: Dataset::remove_redundant_datasets, Dataset::select         *)
(* (Vec indices are 1-based in the model)                                  *)
(***************************************************************************)
\* the inner loop's test: some other dataset is finer and its box "contains" bbox1
redundant_on_ties(ds, i1) ==
    \E i2 \in 1..Len(ds) :
        /\ i1 # i2
        /\ ds[i1].xstep >= ds[i2].xstep
        /\ contains_other(wgsbbox(ds[i2]), wgsbbox(ds[i1]))

redundant_when_finer(ds, i1) ==
    \E i2 \in 1..Len(ds) :
        /\ i1 # i2
        /\ ds[i1].xstep < ds[i2].xstep
        /\ contains_other(wgsbbox(ds[i2]), wgsbbox(ds[i1]))

redundant(ds, i1) ==
    \E i2 \in 1..Len(ds) :
        /\ i1 # i2
        /\ ds[i1].xstep > ds[i2].xstep
        /\ contains_other(wgsbbox(ds[i2]), wgsbbox(ds[i1]))

\* indices_to_remove after the two loops, sort_unstable and dedup
indices_to_remove(ds) ==
    SelectSeq([i \in 1..Len(ds) |-> i], LAMBDA i : redundant(ds, i))

\* Vec::remove(idx)
remove(v, idx) == SubSeq(v, 1, idx - 1) \o SubSeq(v, idx + 1, Len(v))

RECURSIVE remove_in_order(_, _)
remove_in_order(ds, idxs) ==
    IF idxs = <<>> THEN ds
    ELSE remove_in_order(IF Head(idxs) <= Len(ds) THEN remove(ds, Head(idxs)) ELSE ds,
                         Tail(idxs))

\* for &idx in indices_to_remove.iter().rev() { datasets.remove(idx); }
RECURSIVE remove_in_reverse(_, _)
remove_in_reverse(ds, idxs) ==
    IF idxs = <<>> THEN ds
    ELSE remove_in_reverse(remove(ds, idxs[Len(idxs)]), SubSeq(idxs, 1, Len(idxs) - 1))

remove_redundant_datasets(ds) == remove_in_reverse(ds, indices_to_remove(ds))

select_without_retain(cands, polybox) == remove_redundant_datasets(cands)

select(cands, polybox) ==
    SelectSeq(remove_redundant_datasets(cands),
              LAMBDA dataset : intersection(wgsbbox(dataset), polybox).some)

(***************************************************************************)
(* main.rs / point.rs: the BTreeSet<MercatorPoint>, ordered by x then y    *)
(* (ele takes no part in the order), as its ascending sequence             *)
(***************************************************************************)
cmp_less(a, b) == a.x < b.x \/ (a.x = b.x /\ a.y < b.y)
cmp_equal(a, b) == a.x = b.x /\ a.y = b.y

\* BTreeSet::replace: a key that compares equal to a stored one takes its place
insert_replacing(set, m) ==
    SelectSeq(set, LAMBDA p : cmp_less(p, m)) \o <<m>>
        \o SelectSeq(set, LAMBDA p : cmp_less(m, p))

\* BTreeSet::insert: a key that compares equal to a stored one is not inserted
insert(set, m) ==
    IF \E k \in 1..Len(set) : cmp_equal(set[k], m) THEN set
    ELSE SelectSeq(set, LAMBDA p : cmp_less(p, m)) \o <<m>>
           \o SelectSeq(set, LAMBDA p : cmp_less(m, p))

\* for m in &mercpoints { gridpoints.insert(m.clone()); }
RECURSIVE insert_all(_, _)
insert_all(set, mercpoints) ==
    IF mercpoints = <<>> THEN set
    ELSE insert_all(insert(set, Head(mercpoints)), Tail(mercpoints))

(***************************************************************************)
(* SpecSelect: process, from select to the collected posts (main.rs 11-29) *)
(* The polygon enters through its wgsbbox only.                            *)
(***************************************************************************)
\* candidate rasters: three resolutions over lon [0,4], lat [0,4], [2,6] or [0,2]
SelRasters ==
    {[ul_lon |-> 0, ul_lat |-> e[1], xsize |-> 4 \div dx, ysize |-> e[2],
      xstep |-> dx, ystep |-> -2, band |-> SyntheticBand(4 \div dx, e[2], 100 * dx)] :
        dx \in {1, 2, 4}, e \in {<<4, 2>>, <<6, 2>>, <<2, 1>>}}

PolygonBoxes ==
    {[min |-> WGS84Point(b[1], b[2]), max |-> WGS84Point(b[3], b[4])] :
        b \in {<<1, 1, 3, 1>>, <<1, 5, 3, 5>>, <<5, 1, 7, 3>>, <<4, -1, 5, 0>>}}

InitSelect ==
    /\ \E n \in 0..MaxDatasets : \E rs \in [1..n -> SelRasters] :
          candidates = [i \in 1..n |-> rs[i] @@ [filename |-> i]]
    /\ pbbox \in PolygonBoxes
    /\ pruned = <<>> /\ datasets = <<>>
    /\ spc = "select" /\ di = 0 /\ skipped = {} /\ gridpoints = <<>>
    /\ GridIdle /\ FnIdle /\ ProcIdle

\* for dataset in Dataset::select(&input_polygon)
Select ==
    /\ spc = "select"
    /\ pruned' = remove_redundant_datasets(candidates)
    /\ datasets' = select(candidates, pbbox)
    /\ spc' = "loop"
    /\ UNCHANGED <<candidates, di, skipped, gridpoints, pbbox, notSel>>

\* one turn of the loop body, lines 14-24
LoopBody ==
    /\ spc = "loop" /\ di < Len(datasets)
    /\ LET dataset == datasets[di + 1]
           b == intersection(pbbox, wgsbbox(dataset))
       IN  IF b.some
           THEN \E mercpoints \in {points_inside(dataset, snap(dataset, b.v))} :
                  /\ gridpoints' = insert_all(gridpoints, mercpoints.posts)
                  /\ spc' = IF mercpoints.panic = "none" THEN "loop" ELSE "panicked"
                  /\ skipped' = skipped
           ELSE /\ skipped' = skipped \cup {dataset.filename}
                /\ UNCHANGED <<gridpoints, spc>>
    /\ di' = di + 1
    /\ UNCHANGED <<candidates, pruned, datasets, pbbox, notSel>>

\* let gridvec: Vec<MercatorPoint> = gridpoints.into_iter().collect();
Collect ==
    /\ spc = "loop" /\ di = Len(datasets)
    /\ spc' = "collected"
    /\ UNCHANGED <<candidates, pruned, datasets, di, skipped, gridpoints, pbbox, notSel>>

NextSelect == Select \/ LoopBody \/ Collect
SpecSelect == InitSelect /\ [][NextSelect]_vars

\* Dj's box contains Di's box on both axes
GeometricallyContains(a, b) ==
    /\ a.min.lon <= b.min.lon /\ a.min.lat <= b.min.lat
    /\ a.max.lon >= b.max.lon /\ a.max.lat >= b.max.lat

CoveredByFiner(d) ==
    \E j \in 1..Len(candidates) :
        /\ candidates[j].filename # d.filename
        /\ candidates[j].xstep < d.xstep
        /\ GeometricallyContains(wgsbbox(candidates[j]), wgsbbox(d))

\* C4: remove_redundant_datasets removes exactly the datasets for which another
\* dataset of the list is strictly finer and has a box that contains theirs on both
\* axes; every other dataset is kept.
C4_PruneExactlyCovered ==
    spc \in {"loop", "collected", "panicked"} =>
        pruned = SelectSeq(candidates, LAMBDA d : ~CoveredByFiner(d))

\* C5: every dataset select returns has a box that intersects the polygon's, so the
\* loop's `if let Some(bbox) = pbbox.intersection(&dbbox)` is taken for each of them.
C5_NoSelectedSkipped ==
    /\ skipped = {}
    /\ \A k \in 1..Len(datasets) : intersection(pbbox, wgsbbox(datasets[k])).some

\* select dropped a dataset for its box, and the loop took the branch for two others
C5_Witness ==
    /\ spc = "collected" /\ di = 2
    /\ Len(datasets) < Len(pruned)
    /\ Len(gridpoints) > 0

\* the candidate d is still in the list after the pruning
Survives(d) == \E k \in 1..Len(pruned) : pruned[k].filename = d.filename

Pruned == spc \in {"loop", "collected", "panicked"}

\* C16: two datasets of equal xstep are never removed because of each other, however
\* their boxes are nested and also when they are identical: a dataset that is removed
\* has a dataset of strictly smaller xstep that the test accepts, and a list whose
\* datasets all have the same xstep is left as it is.
C16_TieKeepsBoth ==
    Pruned =>
        /\ \A i \in 1..Len(candidates) :
              ~Survives(candidates[i]) =>
                  \E k \in 1..Len(candidates) :
                      /\ candidates[k].xstep < candidates[i].xstep
                      /\ contains_other(wgsbbox(candidates[k]), wgsbbox(candidates[i]))
        /\ (\A i, j \in 1..Len(candidates) : candidates[i].xstep = candidates[j].xstep) =>
              pruned = candidates

\* two identical datasets and one of the same xstep whose box is inside theirs: all stay
C16_Witness ==
    /\ Pruned /\ Len(candidates) = 3 /\ pruned = candidates
    /\ candidates[1].xstep = candidates[2].xstep /\ candidates[2].xstep = candidates[3].xstep
    /\ wgsbbox(candidates[1]) = wgsbbox(candidates[2])
    /\ wgsbbox(candidates[3]) # wgsbbox(candidates[1])
    /\ GeometricallyContains(wgsbbox(candidates[1]), wgsbbox(candidates[3]))

\* C17: remove_redundant_datasets removes each marked index once and nothing else: the
\* list it leaves is the input list without the marked datasets, in the input order.
C17_RemovesMarkedOnly ==
    Pruned =>
        /\ pruned = SelectSeq(candidates, LAMBDA d : ~redundant(candidates, d.filename))
        /\ Len(pruned) = Len(candidates) - Cardinality({i \in 1..Len(candidates) :
                                                          redundant(candidates, i)})

\* the first two of three datasets are marked and the third is the one left
C17_Witness ==
    /\ Pruned /\ Len(candidates) = 3
    /\ redundant(candidates, 1) /\ redundant(candidates, 2)
    /\ pruned = <<candidates[3]>>

\* the ordered set after the loop of lines 13-25 has run over the datasets ds in turn
RECURSIVE PostsOf(_, _, _)
PostsOf(set, ds, polybox) ==
    IF ds = <<>> THEN set
    ELSE PostsOf(Only({IF b.some
                       THEN insert_all(set, points_inside(Head(ds), snap(Head(ds), b.v)).posts)
                       ELSE set : b \in {intersection(polybox, wgsbbox(Head(ds)))}}),
                 Tail(ds), polybox)

\* the orders in which a list of n datasets can be iterated
Orders(n) == {f \in [1..n -> 1..n] : \A i, j \in 1..n : f[i] = f[j] => i = j}

\* C11: the posts handed to triangulate, elevations included, are the same for every
\* order in which the selected datasets are iterated, also when two datasets supply a
\* post at the same (x, y).
C11_PostsOrderIndependent ==
    spc = "collected" =>
        \A f \in Orders(Len(datasets)) :
            PostsOf(<<>>, [i \in 1..Len(datasets) |-> datasets[f[i]]], pbbox) = gridpoints

(***************************************************************************)
(* Strings and format!                                                     *)
(***************************************************************************)
Digit == <<"0", "1", "2", "3", "4", "5", "6", "7", "8", "9">>

\* `{}` of a non-negative integer
RECURSIVE fmt_nat(_)
fmt_nat(n) == IF n < 10 THEN Digit[n + 1] ELSE fmt_nat(n \div 10) \o Digit[(n % 10) + 1]

\* `{}` of an i32
fmt_int(n) == IF n < 0 THEN "-" \o fmt_nat(-n) ELSE fmt_nat(n)

\* `{:0w}` of an i32: zeros between the sign and the digits up to width w
RECURSIVE zeros(_)
zeros(k) == IF k <= 0 THEN "" ELSE "0" \o zeros(k - 1)
fmt_int_padded(n, w) ==
    IF n < 0 THEN "-" \o zeros(w - 1 - Len(fmt_nat(-n))) \o fmt_nat(-n)
    ELSE zeros(w - Len(fmt_nat(n))) \o fmt_nat(n)

(***************************************************************************)
(* hgt.rs: hgt_basename_lonlat.  lon and lat are given in tenths of a      *)
(* degree: the f64 lon is lon10 / 10.                                      *)
(***************************************************************************)
TenthsPerDegree == 10
MaxLat == 90
MaxLon == 180

\* `x as i32` alone truncates toward zero
Trunc(q) == IF q[1] >= 0 THEN q[1] \div q[2] ELSE -((-q[1]) \div q[2])

hgt_basename_lonlat_truncating(lon10, lat10) ==
    LET lat_floor == Trunc(Q(lat10, TenthsPerDegree))
        lon_floor == Trunc(Q(lon10, TenthsPerDegree))
        lat_prefix == IF lat_floor >= 0 THEN "N" ELSE "S"
        lon_prefix == IF lon_floor >= 0 THEN "E" ELSE "W"
    IN  lat_prefix \o fmt_int_padded(Abs(lat_floor), 2)
          \o lon_prefix \o fmt_int_padded(Abs(lon_floor), 3) \o ".hgt"

hgt_basename_lonlat(lon10, lat10) ==
    LET lat_floor == Floor(Q(lat10, TenthsPerDegree))
        lon_floor == Floor(Q(lon10, TenthsPerDegree))
        lat_prefix == IF lat_floor >= 0 THEN "N" ELSE "S"
        lat_abs == Abs(lat_floor)
        lon_prefix == IF lon_floor >= 0 THEN "E" ELSE "W"
        lon_abs == Abs(lon_floor)
    IN  lat_prefix \o fmt_int_padded(lat_abs, 2)
          \o lon_prefix \o fmt_int_padded(lon_abs, 3) \o ".hgt"

(***************************************************************************)
(* SpecHgt: hgt_basename_lonlat on the valid range of lon and lat          *)
(***************************************************************************)
LonSamples == {-1800, -1000, -999, -691, -468, -100, -99, -10, -5, 0,
               5, 10, 99, 100, 468, 723, 985, 999, 1000, 1800}
LatSamples == {-900, -235, -100, -99, -10, -1, 0, 1, 5, 10, 37, 42, 99, 100, 189, 235, 900}

InitHgt ==
    /\ fn = "idle" /\ res = <<>>
    /\ \E lon10 \in -(MaxLon * TenthsPerDegree)..(MaxLon * TenthsPerDegree),
          lat10 \in -(MaxLat * TenthsPerDegree)..(MaxLat * TenthsPerDegree) :
          /\ lon10 \in LonSamples \/ lat10 \in LatSamples
          /\ arg = [lon10 |-> lon10, lat10 |-> lat10]
    /\ pbbox = None /\ GridIdle /\ SelectIdle /\ ProcIdle

HgtBasename ==
    /\ fn = "idle"
    /\ fn' = "hgt_basename_lonlat"
    /\ res' = hgt_basename_lonlat(arg.lon10, arg.lat10)
    /\ UNCHANGED <<arg, notFn>>

NextHgt == HgtBasename
SpecHgt == InitHgt /\ [][NextHgt]_vars

\* the two- and three-digit numerals, written out
Numeral2(v) == Digit[(v \div 10) + 1] \o Digit[(v % 10) + 1]
Numeral3(v) == Digit[(v \div 100) + 1] \o Numeral2(v % 100)

\* v degrees is the size of the floor of t tenths of a degree, which is negative iff t is
IsAbsFloor(v, t) ==
    IF t >= 0 THEN 10 * v <= t /\ t < 10 * (v + 1)
    ELSE -10 * v <= t /\ t < -10 * v + 10

\* C6: hgt_basename_lonlat(lon, lat) is N or S by the sign of floor(lat), |floor(lat)| on
\* two digits, E or W by the sign of floor(lon), |floor(lon)| on three digits, ".hgt";
\* (98.5,3.7) -> N03E098.hgt, (-46.8,-23.5) -> S24W047.hgt, (180,90) -> N90E180.hgt,
\* (-180,-90) -> S90W180.hgt.
C6_HgtBasename ==
    fn = "hgt_basename_lonlat" =>
        /\ \E la \in 0..MaxLat :
              /\ IsAbsFloor(la, arg.lat10)
              /\ \E lo \in 0..MaxLon :
                    /\ IsAbsFloor(lo, arg.lon10)
                    /\ res = (IF arg.lat10 >= 0 THEN "N" ELSE "S") \o Numeral2(la)
                               \o (IF arg.lon10 >= 0 THEN "E" ELSE "W") \o Numeral3(lo)
                               \o ".hgt"
        /\ (arg.lon10 = 985 /\ arg.lat10 = 37) => res = "N03E098.hgt"
        /\ (arg.lon10 = -468 /\ arg.lat10 = -235) => res = "S24W047.hgt"
        /\ (arg.lon10 = 1800 /\ arg.lat10 = 900) => res = "N90E180.hgt"
        /\ (arg.lon10 = -1800 /\ arg.lat10 = -900) => res = "S90W180.hgt"

\* a tile south of the equator and west of Greenwich, named by its south-west corner
C6_Witness ==
    /\ fn = "hgt_basename_lonlat"
    /\ arg.lon10 = -468 /\ arg.lat10 = -235
    /\ res = "S24W047.hgt"

(***************************************************************************)
(* point.rs: to_utm_proj4, polygon.rs: projection.  The vertices of a      *)
(* polygon are given in hundredths of a degree.                            *)
(***************************************************************************)
HundredthsPerDegree == 100
MaxVertices == 3

to_utm_proj4(self) ==
    LET zone == Floor(Q(self.lon + 180 * HundredthsPerDegree, 6 * HundredthsPerDegree)) + 1
        south == IF self.lat < 0 THEN " +south" ELSE ""
    IN  "+proj=utm +zone=" \o fmt_int(zone)
          \o " +datum=WGS84 +units=m +no_defs +type=crs" \o south

projection_of_last_vertex(wgs) ==
    IF wgs = <<>> THEN [panic |-> TRUE]
    ELSE [panic |-> FALSE, value |-> to_utm_proj4(wgs[Len(wgs)])]

\* assert!(!self.wgs.is_empty()), then the first vertex
projection(wgs) ==
    IF wgs = <<>> THEN [panic |-> TRUE]
    ELSE [panic |-> FALSE, value |-> to_utm_proj4(wgs[1])]

(***************************************************************************)
(* SpecProj: projection() of the polygons of up to MaxVertices vertices    *)
(***************************************************************************)
ProjVertices ==
    {WGS84Point(lon, lat) : lon \in {-18000, -6914, -1, 0, 600, 18000},
                            lat \in {-1, 0, 1888}}

RECURSIVE SeqsUpTo(_, _)
SeqsUpTo(S, n) ==
    IF n = 0 THEN {<<>>}
    ELSE SeqsUpTo(S, n - 1) \cup {Append(q, v) : q \in {r \in SeqsUpTo(S, n - 1) : Len(r) = n - 1}, v \in S}

InitProj ==
    /\ fn = "idle" /\ res = <<>>
    /\ arg \in SeqsUpTo(ProjVertices, MaxVertices)
    /\ pbbox = None /\ GridIdle /\ SelectIdle /\ ProcIdle

Projection ==
    /\ fn = "idle"
    /\ fn' = "projection"
    /\ res' = projection(arg)
    /\ UNCHANGED <<arg, notFn>>

NextProj == Projection
SpecProj == InitProj /\ [][NextProj]_vars

\* the proj string of zone z, southern or not
UtmString(z, southern) ==
    "+proj=utm +zone=" \o ToString(z) \o " +datum=WGS84 +units=m +no_defs +type=crs"
        \o (IF southern THEN " +south" ELSE "")

\* C7: projection() of a non-empty polygon is the UTM string of zone floor((lon0+180)/6)+1,
\* with " +south" exactly when lat0 < 0, whatever the other vertices are; a first vertex at
\* lon = -69.14 with lat >= 0 gives zone 19 without "+south".
C7_ProjectionOfFirstVertex ==
    (fn = "projection" /\ arg # <<>>) =>
        /\ ~res.panic
        /\ \E z \in 1..61 :
              /\ 600 * (z - 1) <= arg[1].lon + 18000
              /\ arg[1].lon + 18000 < 600 * z
              /\ res.value = UtmString(z, arg[1].lat < 0)
        /\ (arg[1].lon = -6914 /\ arg[1].lat >= 0) =>
              res.value = "+proj=utm +zone=19 +datum=WGS84 +units=m +no_defs +type=crs"

\* a polygon whose first vertex is in zone 19 north and whose other vertices are
\* in another zone and in the southern hemisphere
C7_Witness ==
    /\ fn = "projection" /\ Len(arg) = 3
    /\ arg[1].lon = -6914 /\ arg[1].lat = 1888
    /\ arg[2].lon = 600 /\ arg[2].lat = -1
    /\ arg[3].lon = -18000 /\ arg[3].lat = -1
    /\ res.value = UtmString(19, FALSE)

(***************************************************************************)
(* point.rs: MercatorPoint::flat; polygon.rs: flat,                        *)
(* calculate_3d_surface_area.  A MercatorPoint has integer x and y here    *)
(* and an elevation that is an f64 value as above.                         *)
(***************************************************************************)
MercatorPoint(x, y, ele) == [x |-> x, y |-> y, ele |-> ele]

flat_keeping_ele(polygon) == polygon

flat(polygon) == [i \in 1..Len(polygon) |-> [polygon[i] EXCEPT !.ele = Some(F(0))]]

\* one component of the cross product p1 x p2, the elevation being z
cross(p1, p2, c) ==
    IF c = "x" THEN FSub(FMul(F(p1.y), p2.ele.v), FMul(p1.ele.v, F(p2.y)))
    ELSE IF c = "y" THEN FSub(FMul(p1.ele.v, F(p2.x)), FMul(F(p1.x), p2.ele.v))
    ELSE F(p1.x * p2.y - p1.y * p2.x)

\* total_vec_c after the first k iterations of the loop
RECURSIVE total_vec(_, _, _)
total_vec(polygon, k, c) ==
    IF k = 0 THEN F(0)
    ELSE FAdd(total_vec(polygon, k - 1, c),
              cross(polygon[k], polygon[(k % Len(polygon)) + 1], c))

powi2(a) == Only({FMul(x, x) : x \in {a}})

\* the f64 returned, or the panic of unwrap() on an elevation that is None
calculate_3d_surface_area(polygon) ==
    IF Len(polygon) < 3 THEN [panic |-> FALSE, value |-> F(0)]
    ELSE IF \E i \in 1..Len(polygon) : ~polygon[i].ele.some THEN [panic |-> TRUE]
    ELSE [panic |-> FALSE,
          value |-> FDiv(FSqrt(FAdd(FAdd(powi2(total_vec(polygon, Len(polygon), "x")),
                                         powi2(total_vec(polygon, Len(polygon), "y"))),
                                    powi2(total_vec(polygon, Len(polygon), "z")))),
                         F(2))]

(***************************************************************************)
(* polygon.rs: slope                                                       *)
(***************************************************************************)
\* a < 1e-10: every value of the model that is above 0 is at least 1 / 2^31
Below1em10(a) == a = NegInf \/ (a[2] # 0 /\ a[1] <= 0)

\* n = v1 x v2, the edge vectors from the first vertex to the second and the third
normal(polygon) ==
    LET p1 == polygon[1]
        p2 == polygon[2]
        p3 == polygon[3]
    IN  Only({<<FSub(FMul(v1[2], v2[3]), FMul(v1[3], v2[2])),
                FSub(FMul(v1[3], v2[1]), FMul(v1[1], v2[3])),
                FSub(FMul(v1[1], v2[2]), FMul(v1[2], v2[1]))>> :
                v1 \in {<<F(p2.x - p1.x), F(p2.y - p1.y), FSub(p2.ele.v, p1.ele.v)>>},
                v2 \in {<<F(p3.x - p1.x), F(p3.y - p1.y), FSub(p3.ele.v, p1.ele.v)>>}})

slope_of_normal_vertical_first(n) ==
    Only({IF Below1em10(vertical_component) THEN PosInf
          ELSE IF Below1em10(normal_magnitude) THEN F(0)
          ELSE FMul(FDiv(horizontal_component, vertical_component), F(100)) :
            normal_magnitude \in {FSqrt(FAdd(FAdd(powi2(n[1]), powi2(n[2])), powi2(n[3])))},
            horizontal_component \in {FSqrt(FAdd(powi2(n[1]), powi2(n[2])))},
            vertical_component \in {FAbs(n[3])}})

\* the part of slope after the normal, lines 205-223
slope_of_normal(n) ==
    Only({IF Below1em10(normal_magnitude) THEN F(0)
          ELSE IF Below1em10(vertical_component) THEN PosInf
          ELSE FMul(FDiv(horizontal_component, vertical_component), F(100)) :
            normal_magnitude \in {FSqrt(FAdd(FAdd(powi2(n[1]), powi2(n[2])), powi2(n[3])))},
            horizontal_component \in {FSqrt(FAdd(powi2(n[1]), powi2(n[2])))},
            vertical_component \in {FAbs(n[3])}})

\* the f64 returned, or the assertion that fails
slope(polygon) ==
    IF Len(polygon) < 3 THEN [panic |-> "assert_len"]
    ELSE IF \E i \in 1..Len(polygon) : ~polygon[i].ele.some THEN [panic |-> "assert_ele"]
    ELSE [panic |-> "none", value |-> slope_of_normal(normal(polygon))]

(***************************************************************************)
(* SpecArea: the two areas the orchestrator takes of a facet               *)
(***************************************************************************)
MaxFacet == 4

FacetPoints ==
    {MercatorPoint(xy[1], xy[2], Some(F(e))) :
        xy \in {<<0, 0>>, <<3, 0>>, <<3, 2>>, <<0, 2>>}, e \in {0, 1}}
    \cup {MercatorPoint(1, 1, None)}

Square100 ==
    <<MercatorPoint(0, 0, Some(F(0))), MercatorPoint(100, 0, Some(F(0))),
      MercatorPoint(100, 100, Some(F(0))), MercatorPoint(0, 100, Some(F(0)))>>
Ramp ==
    <<MercatorPoint(0, 0, Some(F(0))), MercatorPoint(100, 0, Some(F(0))),
      MercatorPoint(100, 100, Some(F(50))), MercatorPoint(0, 100, Some(F(50)))>>

InitArea ==
    /\ fn = "idle" /\ res = <<>>
    /\ arg \in SeqsUpTo(FacetPoints, MaxFacet) \cup {Square100, Ramp}
    /\ pbbox = None /\ GridIdle /\ SelectIdle /\ ProcIdle

\* let a2d = calculate_3d_surface_area(&flat(&plane)); let a3d = calculate_3d_surface_area(&plane)
FacetAreas ==
    /\ fn = "idle"
    /\ fn' = "facet_areas"
    /\ res' = [a2d |-> calculate_3d_surface_area(flat(arg)),
               a3d |-> calculate_3d_surface_area(arg)]
    /\ UNCHANGED <<arg, notFn>>

\* polygon::slope(&plane)
Slope ==
    /\ fn = "idle"
    /\ fn' = "slope"
    /\ res' = slope(arg)
    /\ UNCHANGED <<arg, notFn>>

NextArea == FacetAreas \/ Slope
SpecArea == InitArea /\ [][NextArea]_vars

\* sum over the first k vertices of x_i * y_{i+1} - y_i * x_{i+1}, indices mod n
RECURSIVE Shoelace(_, _)
Shoelace(ring, k) ==
    IF k = 0 THEN 0
    ELSE Shoelace(ring, k - 1)
           + ring[k].x * ring[(k % Len(ring)) + 1].y - ring[k].y * ring[(k % Len(ring)) + 1].x

\* C8: calculate_3d_surface_area(flat(F)) is half the absolute value of the shoelace sum
\* of F's (x, y) ring, and 0 when F has fewer than 3 vertices; the square of side 100
\* gives 10000.
C8_FlatAreaIsShoelace ==
    fn = "facet_areas" =>
        /\ ~res.a2d.panic
        /\ Len(arg) < 3 => res.a2d.value = F(0)
        /\ Len(arg) >= 3 => res.a2d.value = Norm(Abs(Shoelace(arg, Len(arg))), 2)
        /\ arg = Square100 => res.a2d.value = F(10000)

\* a tilted rectangle of 3 by 2: its flat area is 6 and its own area is larger
C8_Witness ==
    /\ fn = "facet_areas" /\ Len(arg) = 4
    /\ arg[3].ele = Some(F(1)) /\ arg[1].ele = Some(F(0))
    /\ res.a2d.value = F(6)
    /\ ~res.a3d.panic /\ res.a3d.value # F(6)

\* the normal of the plane through the first three vertices, written out
NormalOfFirstThree(f) ==
    <<FSub(FMul(F(f[2].y - f[1].y), FSub(f[3].ele.v, f[1].ele.v)),
           FMul(FSub(f[2].ele.v, f[1].ele.v), F(f[3].y - f[1].y))),
      FSub(FMul(FSub(f[2].ele.v, f[1].ele.v), F(f[3].x - f[1].x)),
           FMul(F(f[2].x - f[1].x), FSub(f[3].ele.v, f[1].ele.v))),
      F((f[2].x - f[1].x) * (f[3].y - f[1].y) - (f[2].y - f[1].y) * (f[3].x - f[1].x))>>

den(t) ==
    (t[2].x - t[1].x) * (t[3].y - t[1].y) - (t[3].x - t[1].x) * (t[2].y - t[1].y)

barycentric_coords_uv_swapped(p, t) ==
    LET v0x == t[2].x - t[1].x
        v0y == t[2].y - t[1].y
        v1x == t[3].x - t[1].x
        v1y == t[3].y - t[1].y
        v2x == p.x - t[1].x
        v2y == p.y - t[1].y
    IN  Only({<<vw[1], FSub(FSub(F(1), vw[1]), vw[2]), vw[2]>> :
                vw \in {<<FDiv(F(v2x * v1y - v1x * v2y), F(den(t))),
                          FDiv(F(v0x * v2y - v2x * v0y), F(den(t)))>>}})

\* (u, v, w); nothing guards den = 0
barycentric_coords(p, t) ==
    LET v0x == t[2].x - t[1].x
        v0y == t[2].y - t[1].y
        v1x == t[3].x - t[1].x
        v1y == t[3].y - t[1].y
        v2x == p.x - t[1].x
        v2y == p.y - t[1].y
    IN  Only({<<FSub(FSub(F(1), vw[1]), vw[2]), vw[1], vw[2]>> :
                vw \in {<<FDiv(F(v2x * v1y - v1x * v2y), F(den(t))),
                          FDiv(F(v0x * v2y - v2x * v0y), F(den(t)))>>}})

interpolate_elevation(p, t) ==
    IF t[1].ele.some /\ t[2].ele.some /\ t[3].ele.some
    THEN Only({Some(FAdd(FAdd(FMul(c[1], t[1].ele.v), FMul(c[2], t[2].ele.v)),
                         FMul(c[3], t[3].ele.v))) : c \in {barycentric_coords(p, t)}})
    ELSE None

(***************************************************************************)
(* SpecBary: interpolate_elevation at the points of a small grid, for the  *)
(* triangles on that grid, degenerate ones included                        *)
(***************************************************************************)
MaxTri == 2
TriGrid == {<<x, y>> : x \in 0..MaxTri, y \in 0..MaxTri}

Triangles ==
    {<<MercatorPoint(a[1], a[2], e0), MercatorPoint(b[1], b[2], e1),
       MercatorPoint(c[1], c[2], e2)>> :
        a \in {<<0, 0>>, <<1, 2>>}, b \in TriGrid, c \in TriGrid,
        e0 \in {Some(F(0)), Some(F(5))}, e1 \in {Some(F(0)), Some(<<-3, 2>>)},
        e2 \in {None, Some(F(0)), Some(F(2))}}

InitBary ==
    /\ fn = "idle" /\ res = <<>>
    /\ \E t \in Triangles : arg = [t |-> t, p |-> None]
    /\ pbbox = None /\ GridIdle /\ SelectIdle /\ ProcIdle

\* p.ele = interpolate_elevation(p, triangle), p coming from the clip without elevation
InterpolateElevation ==
    /\ fn = "idle"
    /\ fn' = "interpolate_elevation"
    /\ \E xy \in TriGrid :
          /\ arg' = [arg EXCEPT !.p = Some(MercatorPoint(xy[1], xy[2], None))]
          /\ res' = interpolate_elevation(MercatorPoint(xy[1], xy[2], None), arg.t)
    /\ UNCHANGED notFn

NextBary == InterpolateElevation
SpecBary == InitBary /\ [][NextBary]_vars

\* p is at vertex i of t
AtVertex(p, t, i) == p.x = t[i].x /\ p.y = t[i].y

\* C9: for a triangle with den # 0 and three defined elevations, interpolate_elevation
\* at vertex T_i returns exactly e_i, the weights (u, v, w) being (1,0,0) at T0,
\* (0,1,0) at T1 and (0,0,1) at T2.
C9_InterpolationAtVertices ==
    (/\ fn = "interpolate_elevation"
     /\ den(arg.t) # 0
     /\ \A i \in 1..3 : arg.t[i].ele.some) =>
        /\ AtVertex(arg.p.v, arg.t, 1) =>
              /\ barycentric_coords(arg.p.v, arg.t) = <<F(1), F(0), F(0)>>
              /\ res = arg.t[1].ele
        /\ AtVertex(arg.p.v, arg.t, 2) =>
              /\ barycentric_coords(arg.p.v, arg.t) = <<F(0), F(1), F(0)>>
              /\ res = arg.t[2].ele
        /\ AtVertex(arg.p.v, arg.t, 3) =>
              /\ barycentric_coords(arg.p.v, arg.t) = <<F(0), F(0), F(1)>>
              /\ res = arg.t[3].ele

\* the interpolation at T0 of a clockwise triangle whose elevations all differ
C9_Witness ==
    /\ fn = "interpolate_elevation"
    /\ den(arg.t) < 0
    /\ arg.t[1].ele = Some(F(5)) /\ arg.t[2].ele = Some(<<-3, 2>>) /\ arg.t[3].ele = Some(F(2))
    /\ AtVertex(arg.p.v, arg.t, 1)
    /\ res = Some(F(5))

\* C14: when den is 0 the interpolation gives a defined value, 0 or +infinity, and
\* never NaN.
C14_DegenerateTriangleDefined ==
    (/\ fn = "interpolate_elevation"
     /\ den(arg.t) = 0
     /\ \A i \in 1..3 : arg.t[i].ele.some) =>
        res.some /\ res.v \in {F(0), PosInf}

(***************************************************************************)
(* polygon.rs: Polygon::wgsbbox, Polygon::mercator; reference.rs           *)
(***************************************************************************)
\* the fold over the vertices, from self.wgs[0]
polygon_wgsbbox(wgs) ==
    [min |-> WGS84Point(CHOOSE a \in {wgs[i].lon : i \in 1..Len(wgs)} :
                            \A i \in 1..Len(wgs) : a <= wgs[i].lon,
                        CHOOSE a \in {wgs[i].lat : i \in 1..Len(wgs)} :
                            \A i \in 1..Len(wgs) : a <= wgs[i].lat),
     max |-> WGS84Point(CHOOSE a \in {wgs[i].lon : i \in 1..Len(wgs)} :
                            \A i \in 1..Len(wgs) : a >= wgs[i].lon,
                        CHOOSE a \in {wgs[i].lat : i \in 1..Len(wgs)} :
                            \A i \in 1..Len(wgs) : a >= wgs[i].lat)]

mercator(wgs) == [i \in 1..Len(wgs) |-> project(wgs[i])]

\* unsigned_area of the ring
planar_area(m) == IF Len(m) < 3 THEN F(0) ELSE Norm(Abs(Shoelace(m, Len(m))), 2)

\* geodesic_area_unsigned of the ring; with the projection of the model the
\* geodesic area of a ring is the planar area of its projection
geodesic_area(wgs) == IF Len(wgs) < 3 THEN F(0) ELSE planar_area(mercator(wgs))

(***************************************************************************)
(* triangulation.rs: grid::triangulate.  The Delaunay triangulation is     *)
(* the spade library's: the model lets it return any list of at most       *)
(* MaxTriangles distinct non-degenerate triangles on the posts.            *)
(***************************************************************************)
MaxTriangles == 2

TriplesOf(points) ==
    {ijk \in (1..Len(points)) \X (1..Len(points)) \X (1..Len(points)) :
        /\ ijk[1] < ijk[2] /\ ijk[2] < ijk[3]
        /\ den(<<points[ijk[1]], points[ijk[2]], points[ijk[3]]>>) # 0}

TripleLess(a, b) ==
    \/ a[1] < b[1]
    \/ a[1] = b[1] /\ a[2] < b[2]
    \/ a[1] = b[1] /\ a[2] = b[2] /\ a[3] < b[3]

triangulate(points) ==
    IF Len(points) < 3 THEN {<<>>}
    ELSE {[k \in 1..Len(f) |-> <<points[f[k][1]], points[f[k][2]], points[f[k][3]]>>] :
            f \in {g \in UNION {[1..m -> TriplesOf(points)] : m \in 0..MaxTriangles} :
                     \A a \in 1..Len(g), b \in 1..Len(g) : a < b => TripleLess(g[a], g[b])}}

(***************************************************************************)
(* intersection.rs: intersection.  The boolean intersection is the geo     *)
(* library's: the model lets it return nothing, the whole triangle, a      *)
(* corner of it, two corners of it as two polygons, or a sliver without    *)
(* area; a polygon of fewer than 3 vertices encloses nothing.  Each        *)
(* exterior ring comes closed.                                             *)
(***************************************************************************)
Coord(x, y) == MercatorPoint(x, y, None)
Mid(a, b) == Coord((a.x + b.x) \div 2, (a.y + b.y) \div 2)
Ring(s) == s \o <<s[1]>>

boolean_intersection(p1, t) ==
    IF Len(p1) < 3 THEN {<<>>}
    ELSE LET A == Coord(t[1].x, t[1].y)
             B == Coord(t[2].x, t[2].y)
             C == Coord(t[3].x, t[3].y)
         IN  {<<>>,
              <<Ring(<<A, B, C>>)>>,
              <<Ring(<<A, Mid(A, B), Mid(C, A)>>)>>,
              <<Ring(<<A, Mid(A, B), Mid(C, A)>>), Ring(<<Mid(B, C), C, Mid(C, A)>>)>>,
              <<Ring(<<A, Mid(A, B), B>>)>>}

\* flat_map over the polygons of their exterior rings
RECURSIVE multipolygon_to_mercator(_)
multipolygon_to_mercator(multi_poly) ==
    IF multi_poly = <<>> THEN <<>>
    ELSE Head(multi_poly) \o multipolygon_to_mercator(Tail(multi_poly))

intersection_of_without_elevations(m, triangle) == multipolygon_to_mercator(m)

\* the rest of intersection(polygon, triangle), m being the boolean intersection
intersection_of(m, triangle) ==
    [i \in 1..Len(multipolygon_to_mercator(m)) |->
        [multipolygon_to_mercator(m)[i] EXCEPT
            !.ele = interpolate_elevation(multipolygon_to_mercator(m)[i], triangle)]]

(***************************************************************************)
(* SpecProcess: process(name, input_polygon), main.rs 9-94                 *)
(***************************************************************************)
\* band 1 of a DEM of sea level
FlatBand(xsize, ysize) == [c \in (0..(xsize - 1)) \X (0..(ysize - 1)) |-> 0]

ProcRasters ==
    {r \in SelRasters : r.xstep = 2 /\ r.ul_lat \in {4, 2}} \cup
    {r \in SelRasters : r.xstep = 4 /\ r.ul_lat = 4} \cup
    {[r EXCEPT !.band = FlatBand(r.xsize, r.ysize)] :
        r \in {q \in SelRasters : q.xstep = 2 /\ q.ul_lat = 4}}

Ring2(c) == [i \in 1..Len(c) |-> WGS84Point(c[i][1], c[i][2])]

ProcPolygons ==
    {Ring2(<<>>), Ring2(<<<<1, 3>>>>), Ring2(<<<<1, 1>>, <<3, 3>>>>),
     Ring2(<<<<1, 1>>, <<3, 1>>, <<1, 3>>>>),
     Ring2(<<<<0, 0>>, <<4, 0>>, <<4, 4>>, <<0, 4>>>>),
     Ring2(<<<<5, 5>>, <<7, 5>>, <<6, 7>>>>)}

InitProcess ==
    /\ input_polygon \in ProcPolygons
    /\ \E n \in 0..2 : \E rs \in [1..n -> ProcRasters] :
          candidates = [i \in 1..n |-> rs[i] @@ [filename |-> i]]
    /\ pbbox = None
    /\ pruned = <<>> /\ datasets = <<>>
    /\ spc = "start" /\ di = 0 /\ skipped = {} /\ gridpoints = <<>>
    /\ gridtriangles = <<>> /\ ti = 0 /\ planes = <<>>
    /\ projected2d = F(0) /\ projected3d = F(0) /\ outcome = None
    /\ GridIdle /\ FnIdle

\* input_polygon.info(), which asserts that the input_polygon is not empty, and wgsbbox()
Info ==
    /\ spc = "start"
    /\ IF input_polygon = <<>>
       THEN spc' = "panicked" /\ pbbox' = pbbox
       ELSE spc' = "select" /\ pbbox' = polygon_wgsbbox(input_polygon)
    /\ UNCHANGED <<raster, rt, bbox, gpc, ret, candidates, pruned, datasets, di, skipped,
                   gridpoints, fnVars, procVars>>

\* let gridtriangles = triangulation::grid::triangulate(&gridvec)
Triangulate ==
    /\ spc = "collected"
    /\ gridtriangles' \in triangulate(gridpoints)
    /\ spc' = "clip"
    /\ UNCHANGED <<gridVars, candidates, pruned, datasets, di, skipped, gridpoints, fnVars,
                   input_polygon, ti, planes, projected2d, projected3d, outcome>>

\* a2d < 0.001
ArtifactArea == <<1, 1000>>

\* the loop body with the facet pushed before the test on a2d
ClipStep_keeping_artifacts ==
    /\ spc = "clip" /\ ti < Len(gridtriangles)
    /\ \E m \in boolean_intersection(mercator(input_polygon), gridtriangles[ti + 1]) :
       \E plane \in {intersection_of(m, gridtriangles[ti + 1])} :
       \E a2d \in {calculate_3d_surface_area(flat(plane))},
          a3d \in {calculate_3d_surface_area(plane)} :
          IF plane = <<>>
          THEN UNCHANGED <<spc, planes, projected2d, projected3d>>
          ELSE IF a3d.panic
          THEN spc' = "panicked" /\ UNCHANGED <<planes, projected2d, projected3d>>
          ELSE IF FLt(a2d.value, ArtifactArea)
          THEN planes' = Append(planes, plane) /\ UNCHANGED <<spc, projected2d, projected3d>>
          ELSE /\ projected3d' = FAdd(projected3d, a3d.value)
               /\ projected2d' = FAdd(projected2d, a2d.value)
               /\ planes' = Append(planes, plane)
               /\ spc' = IF slope(plane).panic = "none" THEN spc ELSE "panicked"
    /\ ti' = ti + 1
    /\ UNCHANGED <<gridVars, selVars, fnVars, input_polygon, gridtriangles, outcome>>

\* the loop body with a3d added to projected2d and a2d to projected3d
ClipStep_sums_swapped ==
    /\ spc = "clip" /\ ti < Len(gridtriangles)
    /\ \E m \in boolean_intersection(mercator(input_polygon), gridtriangles[ti + 1]) :
       \E plane \in {intersection_of(m, gridtriangles[ti + 1])} :
       \E a2d \in {calculate_3d_surface_area(flat(plane))},
          a3d \in {calculate_3d_surface_area(plane)} :
          IF plane = <<>>
          THEN UNCHANGED <<spc, planes, projected2d, projected3d>>
          ELSE IF a3d.panic
          THEN spc' = "panicked" /\ UNCHANGED <<planes, projected2d, projected3d>>
          ELSE IF FLt(a2d.value, ArtifactArea)
          THEN UNCHANGED <<spc, planes, projected2d, projected3d>>
          ELSE /\ projected3d' = FAdd(projected3d, a2d.value)
               /\ projected2d' = FAdd(projected2d, a3d.value)
               /\ planes' = Append(planes, plane)
               /\ spc' = IF slope(plane).panic = "none" THEN spc ELSE "panicked"
    /\ ti' = ti + 1
    /\ UNCHANGED <<gridVars, selVars, fnVars, input_polygon, gridtriangles, outcome>>

\* one turn of the loop over the triangles, main.rs 41-57
ClipStep ==
    /\ spc = "clip" /\ ti < Len(gridtriangles)
    /\ \E m \in boolean_intersection(mercator(input_polygon), gridtriangles[ti + 1]) :
       \E plane \in {intersection_of(m, gridtriangles[ti + 1])} :
       \E a2d \in {calculate_3d_surface_area(flat(plane))},
          a3d \in {calculate_3d_surface_area(plane)} :
          IF plane = <<>>
          THEN UNCHANGED <<spc, planes, projected2d, projected3d>>
          ELSE IF a3d.panic
          THEN spc' = "panicked" /\ UNCHANGED <<planes, projected2d, projected3d>>
          ELSE IF FLt(a2d.value, ArtifactArea)
          THEN UNCHANGED <<spc, planes, projected2d, projected3d>>
          ELSE /\ projected3d' = FAdd(projected3d, a3d.value)
               /\ projected2d' = FAdd(projected2d, a2d.value)
               /\ planes' = Append(planes, plane)
               /\ spc' = IF slope(plane).panic = "none" THEN spc ELSE "panicked"
    /\ ti' = ti + 1
    /\ UNCHANGED <<gridVars, selVars, fnVars, input_polygon, gridtriangles, outcome>>

\* after the loop: the ratio, the estimate and the typst::Data returned
Finish ==
    /\ spc = "clip" /\ ti = Len(gridtriangles)
    /\ \E ratio \in {FDiv(projected3d, projected2d)} :
          outcome' = Some([geodesic2d |-> geodesic_area(input_polygon),
                           planar2d |-> planar_area(mercator(input_polygon)),
                           projected2d |-> projected2d,
                           projected3d |-> projected3d,
                           geodesic3d |-> FMul(ratio, geodesic_area(input_polygon)),
                           nplanes |-> Len(planes)])
    /\ spc' = "returned"
    /\ UNCHANGED <<gridVars, candidates, pruned, datasets, di, skipped, gridpoints, fnVars,
                   input_polygon, gridtriangles, ti, planes, projected2d, projected3d>>

NextProcess == Info \/ Select \/ LoopBody \/ Collect \/ Triangulate \/ ClipStep \/ Finish
SpecProcess == InitProcess /\ [][NextProcess]_vars

\* process has come to its end: it returned or it panicked
Ended == spc \in {"returned", "panicked"}

\* C10: process(P) ends in an error and returns no report row carrying geodesic3d
\* whenever P has fewer than 3 vertices, no selected dataset intersects P's bounding
\* box, or no facet is kept.
C10_ErrorWithoutEstimate ==
    (/\ Ended
     /\ \/ Len(input_polygon) < 3
        \/ datasets = <<>>
        \/ planes = <<>>) =>
        spc = "panicked" /\ outcome = None

(***************************************************************************)
(* SpecClip: intersection(polygon, triangle) on the triangles of the grid  *)
(***************************************************************************)
ClipPolygons ==
    {mercator(Ring2(<<<<0, 0>>, <<4, 0>>, <<4, 4>>, <<0, 4>>>>)),
     mercator(Ring2(<<<<0, 0>>, <<4, 0>>, <<4, 4>>, <<3, 4>>, <<3, 1>>, <<1, 1>>, <<1, 4>>, <<0, 4>>>>)),
     mercator(Ring2(<<<<1, 1>>, <<3, 3>>>>))}

InitClip ==
    /\ fn = "idle" /\ res = <<>>
    /\ \E p \in ClipPolygons, t \in Triangles : arg = [polygon |-> p, triangle |-> t]
    /\ pbbox = None /\ GridIdle /\ SelectIdle /\ ProcIdle

\* intersection(&polygon, &gridtriangle); m is the multi-polygon of the boolean intersection
Intersection ==
    /\ fn = "idle"
    /\ fn' = "intersection"
    /\ \E m \in boolean_intersection(arg.polygon, arg.triangle) :
          res' = [m |-> m, ret |-> intersection_of(m, arg.triangle)]
    /\ UNCHANGED <<arg, notFn>>

NextClip == Intersection
SpecClip == InitClip /\ [][NextClip]_vars

\* a vertex list without its elevations
Coords(facet) == [i \in 1..Len(facet) |-> Coord(facet[i].x, facet[i].y)]

\* C12: when the boolean intersection has several result polygons, the vertices of
\* different result polygons are never concatenated into one facet vertex list: a
\* vertex list that intersection() gives is the exterior ring of one result polygon.
C12_RingsKeptSeparate ==
    (fn = "intersection" /\ res.m # <<>>) =>
        \E k \in 1..Len(res.m) : Coords(res.ret) = res.m[k]

\* every post handed to triangulate has elevation 0
AllPostsAtZero == \A k \in 1..Len(gridpoints) : gridpoints[k].ele = Some(F(0))

\* every vertex of the facet has elevation 0
FacetAtZero(plane) == \A i \in 1..Len(plane) : plane[i].ele = Some(F(0))

\* the facets the clip of triangle t can give
ClippedFacets(t) ==
    {intersection_of(m, t) : m \in boolean_intersection(mercator(input_polygon), t)}

\* C13: if every post has elevation 0, every facet the clip of the next triangle can
\* give has all its elevations 0 and a3 = a2, projected3d = projected2d throughout the loop, and with at least one facet
\* kept the ratio is 1 and the estimate is geodesic_area(P.wgs).
C13_FlatTerrain ==
    (spc \in {"clip", "returned"} /\ AllPostsAtZero) =>
        /\ \A k \in {ti + 1} \cap (1..Len(gridtriangles)) :
           \A plane \in ClippedFacets(gridtriangles[k]) :
              /\ FacetAtZero(plane)
              /\ calculate_3d_surface_area(plane) = calculate_3d_surface_area(flat(plane))
        /\ \A k \in 1..Len(planes) : FacetAtZero(planes[k])
        /\ projected3d = projected2d
        /\ (spc = "returned" /\ planes # <<>>) =>
              /\ FDiv(projected3d, projected2d) = F(1)
              /\ outcome.v.geodesic3d = geodesic_area(input_polygon)

\* two facets kept from posts that are all at elevation 0, and the row returned
C13_Witness ==
    /\ spc = "returned" /\ AllPostsAtZero
    /\ Len(planes) = 2 /\ Len(gridtriangles) = 2
    /\ outcome.v.geodesic3d = outcome.v.geodesic2d
    /\ outcome.v.geodesic2d # F(0)

(***************************************************************************)
(* SpecBox: WGS84BoundingBox::intersection and contains_other on the pairs *)
(* of boxes with corners in 0..MaxBox                                      *)
(***************************************************************************)
MaxBox == 3

InitBox ==
    /\ fn = "idle" /\ res = <<>>
    /\ \E a \in Boxes(0..MaxBox, 0..MaxBox), b \in Boxes(0..MaxBox, 0..MaxBox) :
          arg = [a |-> a, b |-> b]
    /\ pbbox = None /\ GridIdle /\ SelectIdle /\ ProcIdle

BoxIntersection ==
    /\ fn = "idle"
    /\ fn' = "intersection"
    /\ res' = intersection(arg.a, arg.b)
    /\ UNCHANGED <<arg, notFn>>

BoxContainsOther ==
    /\ fn = "idle"
    /\ fn' = "contains_other"
    /\ res' = contains_other(arg.a, arg.b)
    /\ UNCHANGED <<arg, notFn>>

NextBox == BoxIntersection \/ BoxContainsOther
SpecBox == InitBox /\ [][NextBox]_vars

DisjointLon(a, b) == a.max.lon < b.min.lon \/ b.max.lon < a.min.lon
DisjointLat(a, b) == a.max.lat < b.min.lat \/ b.max.lat < a.min.lat

\* C18: intersection(A, B) is None exactly when A and B are disjoint on the lon axis or
\* on the lat axis; otherwise it is the box (max of mins, min of maxes), with min <= max,
\* inside A and inside B, and equal to intersection(B, A); boxes that only touch give a
\* box of zero width or zero height, not None.
C18_Intersection ==
    fn = "intersection" =>
        /\ ~res.some <=> (DisjointLon(arg.a, arg.b) \/ DisjointLat(arg.a, arg.b))
        /\ res = intersection(arg.b, arg.a)
        /\ res.some =>
              /\ res.v.min.lon = Max(arg.a.min.lon, arg.b.min.lon)
              /\ res.v.min.lat = Max(arg.a.min.lat, arg.b.min.lat)
              /\ res.v.max.lon = Min(arg.a.max.lon, arg.b.max.lon)
              /\ res.v.max.lat = Min(arg.a.max.lat, arg.b.max.lat)
              /\ res.v.min.lon <= res.v.max.lon /\ res.v.min.lat <= res.v.max.lat
              /\ GeometricallyContains(arg.a, res.v)
              /\ GeometricallyContains(arg.b, res.v)
        /\ (arg.a.max.lon = arg.b.min.lon /\ ~DisjointLat(arg.a, arg.b)) =>
              res.some /\ res.v.min.lon = res.v.max.lon
        /\ (arg.a.max.lat = arg.b.min.lat /\ ~DisjointLon(arg.a, arg.b)) =>
              res.some /\ res.v.min.lat = res.v.max.lat

\* two boxes of positive width and height that touch at one corner
C18_Witness ==
    /\ fn = "intersection"
    /\ arg.a.min.lon < arg.a.max.lon /\ arg.a.min.lat < arg.a.max.lat
    /\ arg.b.min.lon < arg.b.max.lon /\ arg.b.min.lat < arg.b.max.lat
    /\ arg.a.max.lon = arg.b.min.lon /\ arg.a.max.lat = arg.b.min.lat
    /\ res.some /\ res.v.min = res.v.max

\* C19: contains_other(A, B) is true exactly when B is contained in A on both axes, so
\* that whenever it is true every point of B is a point of A.
C19_ContainsOther ==
    fn = "contains_other" =>
        /\ res <=> GeometricallyContains(arg.a, arg.b)
        /\ res => \A lon \in 0..MaxBox, lat \in 0..MaxBox :
                      contains_point(arg.b, WGS84Point(lon, lat))
                          => contains_point(arg.a, WGS84Point(lon, lat))

\* the areas the loop takes of a facet
A2(plane) == Only({calculate_3d_surface_area(f).value : f \in {flat(plane)}})
A3(plane) == Only({calculate_3d_surface_area(f).value : f \in {plane}})

\* over a list of facets: <<the sum of a2 from 0.0, the sum of a3 from 0.0, whether every
\* facet is not empty and has a2 >= 0.001>>
RECURSIVE SumsOver(_)
SumsOver(ps) ==
    IF ps = <<>> THEN <<F(0), F(0), TRUE>>
    ELSE Only({<<FAdd(r[1], a2), FAdd(r[2], a3),
                 r[3] /\ ps[Len(ps)] # <<>> /\ FLe(<<1, 1000>>, a2)>> :
                 r \in {SumsOver(SubSeq(ps, 1, Len(ps) - 1))},
                 a2 \in {A2(ps[Len(ps)])}, a3 \in {A3(ps[Len(ps)])}})

\* the sums and the count are those of the facets kept
SumsOfKept ==
    /\ Len(planes) <= ti
    /\ <<projected2d, projected3d, TRUE>> = SumsOver(planes)

\* a step leaves the list of facets alone or appends a facet of the next triangle's clip
KeptOrSkipped ==
    \/ planes' = planes
    \/ /\ ti' = ti + 1
       /\ \E plane \in ClippedFacets(gridtriangles[ti + 1]) : planes' = Append(planes, plane)

\* C21: after any prefix of the triangle list projected2d is the sum of a2 over the
\* kept facets, projected3d the sum of a3 over the same facets, planes.len() their count,
\* and every kept facet has a2 >= 0.001; a triangle whose clip is empty or has
\* a2 < 0.001 leaves projected2d, projected3d and planes unchanged.  (The facets kept
\* are the list `planes`, which a step extends by at most the facet of its triangle, so
\* a triangle that adds no facet changes neither sum.  The sums are stated of every
\* state before the loop and of the state every step leads to.)
C21_LoopSums == [][(ti = 0 => SumsOfKept) /\ SumsOfKept' /\ KeptOrSkipped]_vars

\* two triangles consumed, one skipped and one kept on a terrain that is not flat
C21_Witness ==
    /\ spc = "clip" /\ ti = 2 /\ Len(planes) = 1
    /\ FLt(projected2d, projected3d)

\* d has the smallest xstep of the candidates
MinimalXstep(d) == \A j \in 1..Len(candidates) : d.xstep <= candidates[j].xstep

\* C22: remove_redundant_datasets never empties a list that is not empty: every dataset
\* whose xstep is minimal among the input datasets survives, so the output has at least
\* one dataset whenever the input has.
C22_MinimalXstepSurvives ==
    Pruned =>
        /\ \A i \in 1..Len(candidates) : MinimalXstep(candidates[i]) => Survives(candidates[i])
        /\ candidates # <<>> => pruned # <<>>

\* a coarser dataset is removed and the two datasets of the smallest xstep both stay
C22_Witness ==
    /\ Pruned /\ Len(candidates) = 3
    /\ candidates[1].xstep > candidates[2].xstep /\ candidates[2].xstep = candidates[3].xstep
    /\ pruned = <<candidates[2], candidates[3]>>

\* C23: pruning preserves coverage: for every dataset Di that remove_redundant_datasets
\* removes there is a dataset Dk that survives, has a strictly smaller xstep than Di, and
\* whose wgsbbox contains Di's wgsbbox on both axes (also when the dataset that caused
\* Di's removal was removed itself).
C23_CoveragePreserved ==
    Pruned =>
        \A i \in 1..Len(candidates) :
            ~Survives(candidates[i]) =>
                \E k \in 1..Len(candidates) :
                    /\ Survives(candidates[k])
                    /\ candidates[k].xstep < candidates[i].xstep
                    /\ GeometricallyContains(wgsbbox(candidates[k]), wgsbbox(candidates[i]))

\* C24: in points_inside, for every box obtained in the orchestrator (the polygon's box
\* intersected with the dataset's wgsbbox, then snapped), the clamped window is a
\* non-empty sub-rectangle of the raster: 0 <= col_start <= col_end <= xsize - 1 and
\* 0 <= row_start <= row_end <= ysize - 1, so window_xsize >= 1 and window_ysize >= 1,
\* also when the box only touches the east or south edge of the dataset's wgsbbox.
C24_WindowNonEmpty ==
    gpc \in {"done", "panicked"} =>
        /\ 0 <= ret.window.col_start /\ ret.window.col_start <= ret.window.col_end
        /\ ret.window.col_end <= raster.xsize - 1
        /\ 0 <= ret.window.row_start /\ ret.window.row_start <= ret.window.row_end
        /\ ret.window.row_end <= raster.ysize - 1

ElevationsDefined(plane) == \A i \in 1..Len(plane) : plane[i].ele.some

\* C26: for every facet F with all elevations defined, calculate_3d_surface_area(F) >=
\* calculate_3d_surface_area(flat(F)); hence after any sequence of processed triangles
\* projected3d >= projected2d and, when at least one facet is kept, ratio >= 1.  (The
\* facets are those the clip of the next triangle can give, in every state of the loop.)
C26_SurfaceNotBelowFlat ==
    /\ spc = "clip" =>
          \A k \in {ti + 1} \cap (1..Len(gridtriangles)) :
          \A plane \in ClippedFacets(gridtriangles[k]) :
              ElevationsDefined(plane) => FLe(A2(plane), A3(plane))
    /\ FLe(projected2d, projected3d)
    /\ (spc = "returned" /\ planes # <<>>) => FLe(F(1), FDiv(projected3d, projected2d))

\* a row returned for a terrain that is not flat: the estimate is above the geodesic area
C26_Witness ==
    /\ spc = "returned" /\ planes # <<>>
    /\ FLt(F(1), FDiv(outcome.v.projected3d, outcome.v.projected2d))
    /\ FLt(outcome.v.geodesic2d, outcome.v.geodesic3d)

\* C27: for every longitude in [-180, 180] the zone number that to_utm_proj4 computes
\* is a UTM zone, 1..60, also at lon = 180 and at lon = -180.
C27_ZoneInRange ==
    (/\ fn = "projection" /\ arg # <<>>
     /\ -180 * HundredthsPerDegree <= arg[1].lon /\ arg[1].lon <= 180 * HundredthsPerDegree) =>
        \E z \in 1..60 : res.value = UtmString(z, arg[1].lat < 0)

\* the posts that the loop of lines 13-25 has passed to insert, in order, after the first
\* k datasets
RECURSIVE InsertedPosts(_)
InsertedPosts(k) ==
    IF k = 0 THEN <<>>
    ELSE Only({InsertedPosts(k - 1)
                 \o (IF b.some THEN points_inside(datasets[k], snap(datasets[k], b.v)).posts
                     ELSE <<>>) : b \in {intersection(pbbox, wgsbbox(datasets[k]))}})

\* the first post of the sequence with the (x, y) of m
FirstAt(posts, m) ==
    posts[CHOOSE i \in 1..Len(posts) :
            /\ cmp_equal(posts[i], m)
            /\ \A j \in 1..(i - 1) : ~cmp_equal(posts[j], m)]

\* C28: after any sequence of posts has been inserted, the ordered set holds at most one
\* post for each (x, y), the post it holds for an (x, y) is the first one inserted there
\* (a later post at the same (x, y) with another elevation does not overwrite it), and the
\* vector it gives is sorted by x, then y.
C28_FirstInsertedKept ==
    spc \in {"loop", "collected"} =>
        \A posts \in {InsertedPosts(di)} :
            /\ \A a, b \in 1..Len(gridpoints) : a < b => cmp_less(gridpoints[a], gridpoints[b])
            /\ \A k \in 1..Len(gridpoints) :
                  /\ \E i \in 1..Len(posts) : cmp_equal(posts[i], gridpoints[k])
                  /\ gridpoints[k] = FirstAt(posts, gridpoints[k])
            /\ \A i \in 1..Len(posts) :
                  \E k \in 1..Len(gridpoints) : cmp_equal(gridpoints[k], posts[i])

\* two datasets gave a post at the same (x, y) with different elevations, and the set
\* holds the elevation of the first
C28_Witness ==
    /\ spc = "collected" /\ Len(gridpoints) >= 2
    /\ \E posts \in {InsertedPosts(di)} :
       \E i, j \in 1..Len(posts) :
          /\ i < j /\ cmp_equal(posts[i], posts[j]) /\ posts[i].ele # posts[j].ele
          /\ \E k \in 1..Len(gridpoints) : gridpoints[k] = posts[i]

====
